---- MODULE Spec2Model ----
(***************************************************************************)
(* asynchy command line (src/asynchy/cli.py): the config validator, the    *)
(* YAML config reader, the click group callback `cli`, and the `init` and  *)
(* `sync` subcommands, run as one command-line invocation against a file   *)
(* system.                                                                 *)
(*                                                                         *)
(* Strings are sequences of tokens: "/" and "~" are the path characters    *)
(* os.path looks at, every other token stands for a run of ordinary        *)
(* characters.                                                             *)
(***************************************************************************)
EXTENDS Integers, Sequences, FiniteSets, TLC

\* ------------------------------------------------------------ environment

\* $HOME of the invoking user, and the only account pwd knows besides.
HOME == <<"/", "home">>
KnownUsers == {<<"u">>}
\* The working directory, as a list of directory names from the root.
CWD == <<"cwd">>

\* --------------------------------------------------------------- os.path

RECURSIVE RStripSlash(_)
RStripSlash(s) ==
    IF s # <<>> /\ s[Len(s)] = "/" THEN RStripSlash(SubSeq(s, 1, Len(s) - 1)) ELSE s

\* str.find('/', from): the first index >= from holding "/", else Len + 1.
FindSlash(p, from) ==
    LET hits == {i \in from..Len(p) : p[i] = "/"}
    IN  IF hits = {} THEN Len(p) + 1 ELSE CHOOSE i \in hits : \A j \in hits : i <= j

\* str.rfind('/') + 1.
RFindSlash(p) ==
    LET hits == {i \in 1..Len(p) : p[i] = "/"}
    IN  IF hits = {} THEN 0 ELSE CHOOSE i \in hits : \A j \in hits : j <= i

\* os.path.expanduser: a leading "~" or "~user" is replaced by that user's
\* home directory; a path that does not start with "~", or names an account
\* pwd does not know, is returned unchanged.
expanduser(p) ==
    IF p = <<>> \/ p[1] # "~" THEN p
    ELSE LET i == FindSlash(p, 2)
             name == SubSeq(p, 2, i - 1)
             rest == SubSeq(p, i, Len(p))
         IN  IF i # 2 /\ name \notin KnownUsers THEN p
             ELSE IF RStripSlash(HOME) \o rest = <<>> THEN <<"/">>
             ELSE RStripSlash(HOME) \o rest

\* os.path.dirname: everything up to the last "/", trailing slashes stripped
\* unless the head is all slashes. A bare file name has the dirname "".
dirname(p) ==
    LET head == SubSeq(p, 1, RFindSlash(p))
    IN  IF head # <<>> /\ (\E i \in 1..Len(head) : head[i] # "/")
        THEN RStripSlash(head) ELSE head

\* The directory names a path resolves through, from the root.
Resolve(p) ==
    LET names == SelectSeq(p, LAMBDA t : t \notin {"/", "."})
    IN  IF p # <<>> /\ p[1] = "/" THEN names ELSE CWD \o names

Prefixes(n) == {SubSeq(n, 1, k) : k \in 0..Len(n)}
ProperPrefixes(n) == Prefixes(n) \ {n}
Parent(n) == SubSeq(n, 1, Len(n) - 1)

\* ------------------------------------------------------------ file system
\* dirs: the directories; files: the regular files and their contents;
\* both keyed by resolved path. ReadOnlyDirs refuse new entries, locked files
\* refuse to be opened at all (EACCES).

ReadOnlyDirs == {<<"etc">>}

\* os.path.exists
exists(dirs, files, p) ==
    /\ p # <<>>
    /\ \/ Resolve(p) \in dirs
       \/ Resolve(p) \in DOMAIN files

\* The exception open(p, "r") raises, or "none".
OpenReadError(dirs, files, locked, p) ==
    IF p = <<>> THEN "FileNotFoundError"
    ELSE IF Resolve(p) \in dirs THEN "IsADirectoryError"
    ELSE IF \E a \in ProperPrefixes(Resolve(p)) : a \in DOMAIN files
         THEN "NotADirectoryError"
    ELSE IF Resolve(p) \notin DOMAIN files THEN "FileNotFoundError"
    ELSE IF Resolve(p) \in locked THEN "PermissionError"
    ELSE "none"

\* The exception open(p, "w") raises, or "none".
OpenWriteError(dirs, files, locked, p) ==
    IF p = <<>> THEN "FileNotFoundError"
    ELSE IF Resolve(p) \in dirs THEN "IsADirectoryError"
    ELSE IF \E a \in ProperPrefixes(Resolve(p)) : a \in DOMAIN files
         THEN "NotADirectoryError"
    ELSE IF Parent(Resolve(p)) \notin dirs THEN "FileNotFoundError"
    ELSE IF Resolve(p) \in DOMAIN files
         THEN (IF Resolve(p) \in locked THEN "PermissionError" ELSE "none")
    ELSE IF Parent(Resolve(p)) \in ReadOnlyDirs THEN "PermissionError"
    ELSE "none"

\* The exception os.makedirs(d) raises, or "none". makedirs("") has nothing
\* to create and raises FileNotFoundError.
MakedirsError(dirs, files, d) ==
    IF d = <<>> THEN "FileNotFoundError"
    ELSE IF Resolve(d) \in dirs \/ Resolve(d) \in DOMAIN files THEN "FileExistsError"
    ELSE IF \E a \in ProperPrefixes(Resolve(d)) : a \in DOMAIN files
         THEN "NotADirectoryError"
    ELSE IF \E a \in Prefixes(Resolve(d)) :
               a \notin dirs /\ Parent(a) \in dirs /\ Parent(a) \in ReadOnlyDirs
         THEN "PermissionError"
    ELSE "none"

\* The directories after a successful os.makedirs(d).
Makedirs(dirs, d) == dirs \cup Prefixes(Resolve(d))

IOErrors == {"FileNotFoundError", "IsADirectoryError", "NotADirectoryError",
             "PermissionError", "FileExistsError", "OSError"}


\* ------------------------------------------------------------------ YAML
\* A scalar value: a string, an integer (its digits) or null.
Str(s) == [t |-> "str", s |-> s]
IntV(s) == [t |-> "int", s |-> s]
Null == [t |-> "null", s |-> <<>>]

\* Tokens that are runs of digits.
IntTok == {"22", "2222"}

\* The tag YAML's implicit resolver gives a plain (unquoted) scalar.
PlainTag(text) ==
    IF text = <<>> \/ text = <<"~">> \/ text = <<"null">> THEN "null"
    ELSE IF \A i \in 1..Len(text) : text[i] \in IntTok THEN "int"
    ELSE "str"

\* One "key: value" line of a block mapping: the value's text and whether it
\* is written plain or single-quoted.
Line(k, style, text) == [k |-> k, style |-> style, text |-> text]

\* A dump that never quotes: every scalar is written plain.
emit_scalar_plain(k, v) ==
    Line(k, "plain", IF v.t = "null" THEN <<"null">> ELSE v.s)

\* yaml's representer and emitter for one scalar: a string is written plain
\* only if a plain scalar of that text resolves to a string again.
emit_scalar(k, v) ==
    IF v.t = "str"
    THEN Line(k, IF PlainTag(v.s) = "str" THEN "plain" ELSE "single", v.s)
    ELSE IF v.t = "int" THEN Line(k, "plain", v.s)
    ELSE Line(k, "plain", <<"null">>)

\* yaml's constructor for one scalar.
construct_scalar(ln) ==
    IF ln.style = "single" THEN Str(ln.text)
    ELSE IF PlainTag(ln.text) = "int" THEN IntV(ln.text)
    ELSE IF PlainTag(ln.text) = "null" THEN Null
    ELSE Str(ln.text)

\* yaml.dump writes a mapping's keys sorted.
SortedKeys == <<"db", "extra", "host", "keypath", "port", "user">>

\* A file's content: a block mapping (no lines: the empty document), the
\* empty flow mapping "{}", a lone scalar, or text that is not YAML.
Block(lines) == [kind |-> "block", lines |-> lines]
EmptyDoc == Block(<<>>)
FlowEmpty == [kind |-> "flow", lines |-> <<>>]
ScalarDoc == [kind |-> "scalar", lines |-> <<Line("", "plain", <<"h">>)>>]
Garbage == [kind |-> "garbage", lines |-> <<>>]

\* yaml.dump(cfg) of a mapping; the empty mapping is written "{}".
yaml_dump(m) ==
    LET ks == SelectSeq(SortedKeys, LAMBDA k : k \in DOMAIN m)
    IN  IF DOMAIN m = {} THEN FlowEmpty
        ELSE Block([i \in 1..Len(ks) |-> emit_scalar(ks[i], m[ks[i]])])

\* Parsed values: a mapping, None (the empty document) or a lone scalar.
EmptyMap == [k \in {} |-> Null]
Mapping(m) == [t |-> "map", m |-> m]
None == [t |-> "none", m |-> EmptyMap]
Scalar == [t |-> "scalar", m |-> EmptyMap]

\* yaml.load(rdr): [exc, val]. A later duplicate of a key wins.
yaml_load(c) ==
    IF c.kind = "garbage" THEN [exc |-> "YAMLError", val |-> None]
    ELSE IF c.kind = "scalar" THEN [exc |-> "none", val |-> Scalar]
    ELSE IF c.kind = "flow" THEN [exc |-> "none", val |-> Mapping(EmptyMap)]
    ELSE IF c.lines = <<>> THEN [exc |-> "none", val |-> None]
    ELSE LET last(k) == CHOOSE i \in 1..Len(c.lines) :
                            /\ c.lines[i].k = k
                            /\ \A j \in 1..Len(c.lines) : c.lines[j].k = k => j <= i
         IN  [exc |-> "none",
              val |-> Mapping([k \in {c.lines[i].k : i \in 1..Len(c.lines)} |->
                                  construct_scalar(c.lines[last(k)])])]

\* ---------------------------------------------------------- config reader

required_keys == <<"host", "port", "user", "keypath", "db">>

\* The docstring's version of the check: 'host', 'port' and 'user' only.
validate_config_docstring(cfg) ==
    \A i \in 1..3 : required_keys[i] \in DOMAIN cfg

\* validate_config(cfg) for a mapping cfg.
validate_config(cfg) ==
    \A i \in 1..Len(required_keys) : required_keys[i] \in DOMAIN cfg

\* _read_config(path): the exception it raises ("none": it returns cfg), and
\* the call of validate_config it made, if any. A parsed value that is no
\* mapping has no keys(): validate_config raises AttributeError.
_read_config(dirs, files, locked, path) ==
    LET oerr == OpenReadError(dirs, files, locked, path)
        ld == yaml_load(files[Resolve(path)])
        novc == [called |-> FALSE, arg |-> EmptyMap, ret |-> FALSE]
    IN  IF oerr # "none" THEN [exc |-> oerr, cfg |-> None, vc |-> novc]
        ELSE IF ld.exc # "none" THEN [exc |-> ld.exc, cfg |-> None, vc |-> novc]
        ELSE IF ld.val.t # "map" THEN [exc |-> "AttributeError", cfg |-> None, vc |-> novc]
        ELSE LET ok == validate_config(ld.val.m)
                 vc == [called |-> TRUE, arg |-> ld.val.m, ret |-> ok]
             IN  IF ~ok THEN [exc |-> "InvalidConfigError", cfg |-> None, vc |-> vc]
                 ELSE [exc |-> "none", cfg |-> ld.val, vc |-> vc]


\* --------------------------------------------------------------- inputs

\* click's defaults for the options.
DefaultConfig == <<"~", "/", ".as.yaml">>
DefaultPort == <<"22">>
DefaultDb == <<".", "/", "files.db">>
DefaultLimit == 50
\* The largest --threads value tried (0 is tried too: click takes any int).
MaxThreads == 2

\* --config / --config_path values: the default, a bare file name, paths
\* with a missing parent (absolute and relative), a path in a read-only
\* directory, and a directory.
BarePath == <<"as.yaml">>
EtcPath == <<"/", "etc", "/", "as.yaml">>
NewPath == <<"/", "new", "/", "as.yaml">>
RelPath == <<"conf", "/", "as.yaml">>
DirPath == <<"/", "etc">>
InitPaths == {DefaultConfig, BarePath, EtcPath, NewPath, RelPath, DirPath}
SyncConfigs == {DefaultConfig, BarePath, EtcPath, NewPath, DirPath}
InitConfigs == {DefaultConfig, BarePath}

Hosts == {<<"h">>, <<"22">>, <<"~">>}
Ports == {DefaultPort, <<"2222">>}
Users == {<<"u">>}
Keypaths == {<<"~", "/", "k">>, <<"~", "x">>}
Dbs == {DefaultDb, <<"~">>}
Answers == {"y", "n", "abort"}

\* What one command line supplies (prompted values included). The options
\* of the subcommand that is not invoked are left at their defaults.
InitInvocations ==
    [sub : {"init"}, config : InitConfigs, config_path : InitPaths, host : Hosts,
     port : Ports, user : Users, keypath : Keypaths, db : Dbs, overwrite : BOOLEAN,
     dest : {<<".", "/">>}, src_prefix : {<<"/">>}, order : {"ASC"},
     limit : {DefaultLimit}, parallel : {FALSE}, threads : {1},
     partial : {FALSE}, compress : {FALSE}]

SyncInvocations ==
    [sub : {"sync"}, config : SyncConfigs, config_path : {DefaultConfig},
     host : {<<"h">>}, port : {DefaultPort}, user : {<<"u">>},
     keypath : {<<"/", "k">>}, db : {DefaultDb}, overwrite : {FALSE},
     dest : {<<".", "/">>}, src_prefix : {<<"/">>}, order : {"ASC", "DESC"},
     limit : {DefaultLimit}, parallel : BOOLEAN, threads : 0..MaxThreads,
     partial : BOOLEAN, compress : BOOLEAN]

NoInvocation == CHOOSE i \in InitInvocations :
    /\ i.config = DefaultConfig /\ i.config_path = DefaultConfig /\ i.host = <<"h">>
    /\ i.port = DefaultPort /\ i.keypath = <<"~", "/", "k">> /\ i.db = DefaultDb
    /\ ~i.overwrite

\* ------------------------------------------------- initial file systems

TypicalValue(k) ==
    CASE k = "host" -> Str(<<"h">>)
      [] k = "port" -> IntV(DefaultPort)
      [] k = "user" -> Str(<<"u">>)
      [] k = "keypath" -> Str(<<"/", "k">>)
      [] k = "db" -> Str(DefaultDb)
      [] OTHER -> Str(<<"x">>)

RequiredKeySet == {required_keys[i] : i \in 1..Len(required_keys)}

\* Config files found on disk: every subset of the required keys (hand
\* written or dumped by an earlier init), all five keys with values of other
\* types, an extra key with and without `db`, the empty file, a lone scalar
\* and a file that is not YAML.
InitialContents ==
    {yaml_dump([k \in K |-> TypicalValue(k)]) : K \in SUBSET RequiredKeySet}
    \cup {yaml_dump([k \in RequiredKeySet |-> Null]),
          yaml_dump([k \in RequiredKeySet |-> Str(<<"22">>)]),
          yaml_dump([k \in RequiredKeySet \cup {"extra"} |-> TypicalValue(k)]),
          yaml_dump([k \in (RequiredKeySet \ {"db"}) \cup {"extra"} |-> TypicalValue(k)]),
          EmptyDoc, ScalarDoc, Garbage}

ConfigSites == {<<"home", ".as.yaml">>, <<"cwd", "as.yaml">>, <<"etc", "as.yaml">>}
Placements == {{}, {<<"home", ".as.yaml">>}, {<<"cwd", "as.yaml">>}, ConfigSites}

BaseDirs == {<<>>, <<"home">>, <<"etc">>, <<"cwd">>}
\* The files a placement of content c gives, beside the regular file /f.
FilesWith(c, at) == [n \in at \cup {<<"f">>} |-> IF n = <<"f">> THEN Garbage ELSE c]

\* ------------------------------------------------------------------ state

VARIABLES
    pc,          \* where the invocation is: start, cli, dispatch, init,
                 \* sync, sync_rst, sync_main, exit, done
    inv,         \* the command line
    dirs,        \* file system: directories
    files,       \* file system: regular files and their contents
    locked,      \* file system: files that cannot be opened
    dirs0,       \* the directories when the invocation started
    files0,      \* the files when the invocation started
    ctxObj,      \* ctx.obj
    cliRet,      \* what the group callback cli returned
    subRet,      \* what the subcommand callback returned
    exc,         \* the exception that left the callbacks uncaught, or "none"
    exitStatus,  \* the process's exit status (at pc = "done")
    confirm,     \* click.confirm: "unasked", or the answer given
    proceeded,   \* init got past the confirmation, to the write
    vc,          \* the call of validate_config made, if any
    reads,       \* the paths opened for reading
    syncEntered, \* the sync callback was invoked
    pools,       \* the worker pools built, in order
    clients,     \* the transfer clients built, in order
    mainCalls    \* the calls of main made, in order

vars == <<pc, inv, dirs, files, locked, dirs0, files0, ctxObj, cliRet, subRet,
          exc, exitStatus, confirm, proceeded, vc, reads, syncEntered,
          pools, clients, mainCalls>>

fsvars == <<dirs, files, locked, dirs0, files0>>
syncvars == <<pools, clients, mainCalls>>

Init ==
    /\ pc = "start"
    /\ inv = NoInvocation
    /\ dirs = BaseDirs
    /\ dirs0 = BaseDirs
    /\ \E c \in InitialContents, at \in Placements :
          /\ files = FilesWith(c, at)
          /\ files0 = FilesWith(c, at)
          /\ locked \in {{}, at}
    /\ ctxObj = None
    /\ cliRet = 0
    /\ subRet = 0
    /\ exc = "none"
    /\ exitStatus = 0
    /\ confirm = "unasked"
    /\ proceeded = FALSE
    /\ vc = [called |-> FALSE, arg |-> EmptyMap, ret |-> FALSE]
    /\ reads = {}
    /\ syncEntered = FALSE
    /\ pools = <<>>
    /\ clients = <<>>
    /\ mainCalls = <<>>


\* ------------------------------------------------------ the entry point

\* sys.exit(cli()): click parses the command line and runs the group.
main_entry ==
    /\ pc = "start"
    /\ inv' \in InitInvocations \cup SyncInvocations
    /\ pc' = "cli"
    /\ UNCHANGED <<fsvars, ctxObj, cliRet, subRet, exc, exitStatus, confirm,
                   proceeded, vc, reads, syncEntered, syncvars>>

\* ------------------------------------------------ the group callback cli

\* A dispatcher that loads the config for every subcommand.
loads_config_always(sub) == TRUE

\* if ctx.invoked_subcommand != "init"
loads_config(sub) == sub # "init"

\* A handler that falls back to an empty config when the file cannot be read.
cli_outcome_defaults(r) ==
    IF r.exc = "none" THEN [ret |-> 0, obj |-> r.cfg, exc |-> "none"]
    ELSE IF r.exc \in IOErrors THEN [ret |-> 1, obj |-> Mapping(EmptyMap), exc |-> "none"]
    ELSE IF r.exc = "InvalidConfigError" THEN [ret |-> 2, obj |-> None, exc |-> "none"]
    ELSE [ret |-> 0, obj |-> None, exc |-> r.exc]

\* The try/except around _read_config: what cli returns, what it leaves in
\* ctx.obj, and the exception it lets through.
cli_outcome(r) ==
    IF r.exc = "none" THEN [ret |-> 0, obj |-> r.cfg, exc |-> "none"]
    ELSE IF r.exc \in IOErrors THEN [ret |-> 1, obj |-> None, exc |-> "none"]
    ELSE IF r.exc = "InvalidConfigError" THEN [ret |-> 2, obj |-> None, exc |-> "none"]
    ELSE [ret |-> 0, obj |-> None, exc |-> r.exc]

cli ==
    /\ pc = "cli"
    /\ IF loads_config(inv.sub)
       THEN LET path == expanduser(inv.config)
                r == _read_config(dirs, files, locked, path)
                o == cli_outcome(r)
            IN  /\ reads' = reads \cup {path}
                /\ vc' = r.vc
                /\ ctxObj' = o.obj
                /\ cliRet' = o.ret
                /\ exc' = o.exc
                /\ pc' = IF o.exc = "none" THEN "dispatch" ELSE "exit"
       ELSE /\ cliRet' = 0
            /\ pc' = "dispatch"
            /\ UNCHANGED <<reads, vc, ctxObj, exc>>
    /\ UNCHANGED <<inv, fsvars, subRet, exitStatus, confirm, proceeded,
                   syncEntered, syncvars>>

\* The click group, once its callback has returned: it drops the callback's
\* return value and invokes the subcommand's callback, whose context takes
\* its obj from the group's.
invoke_subcommand ==
    /\ pc = "dispatch"
    /\ pc' = inv.sub
    /\ syncEntered' = (inv.sub = "sync")
    /\ UNCHANGED <<inv, fsvars, ctxObj, cliRet, subRet, exc, exitStatus, confirm,
                   proceeded, vc, reads, syncvars>>

\* ------------------------------------------------------------------ init

\* The mapping init collects.
init_cfg(i) ==
    [k \in RequiredKeySet |->
        CASE k = "host" -> Str(i.host)
          [] k = "port" -> IntV(i.port)
          [] k = "user" -> Str(i.user)
          [] k = "keypath" -> Str(expanduser(i.keypath))
          [] k = "db" -> Str(expanduser(i.db))]

\* A check that asks whenever the file exists, --overwrite or not.
confirm_needed_ignores_overwrite(overwrite, there) == there

\* if not overwrite and os.path.exists(config_path)
confirm_needed(overwrite, there) == ~overwrite /\ there

\* A check that goes on whatever the answer.
declined_ignored(answer) == FALSE

\* if not click.confirm(...)
declined(answer) == answer = "n"

\* The files after open(path, "w") and a write of content c.
Written(fs, path, c) ==
    [n \in DOMAIN fs \cup {Resolve(path)} |-> IF n = Resolve(path) THEN c ELSE fs[n]]

init ==
    /\ pc = "init"
    /\ LET cfg == init_cfg(inv)
           config_path == expanduser(inv.config_path)
           ask == confirm_needed(inv.overwrite, exists(dirs, files, config_path))
           d == dirname(config_path)
           mk == ~exists(dirs, files, d)
           mkErr == IF mk THEN MakedirsError(dirs, files, d) ELSE "none"
           dirs1 == IF mk THEN Makedirs(dirs, d) ELSE dirs
           wErr == OpenWriteError(dirs1, files, locked, config_path)
       IN  \E answer \in (IF ask THEN Answers ELSE {"unasked"}), full \in BOOLEAN :
             /\ confirm' = answer
             /\ IF answer = "abort"
                THEN \* click.confirm raises Abort at end of input
                     /\ exc' = "Abort"
                     /\ UNCHANGED <<subRet, dirs, files, proceeded>>
                ELSE IF ask /\ declined(answer)
                THEN /\ subRet' = 1
                     /\ UNCHANGED <<exc, dirs, files, proceeded>>
                ELSE /\ proceeded' = TRUE
                     /\ IF mkErr # "none"
                        THEN \* os.makedirs is outside the try
                             /\ exc' = mkErr
                             /\ UNCHANGED <<subRet, dirs, files>>
                        ELSE IF wErr # "none"
                        THEN /\ subRet' = 1
                             /\ dirs' = dirs1
                             /\ UNCHANGED <<exc, files>>
                        ELSE IF full
                        THEN \* f.write fails: the file is left truncated
                             /\ subRet' = 1
                             /\ dirs' = dirs1
                             /\ files' = Written(files, config_path, EmptyDoc)
                             /\ UNCHANGED exc
                        ELSE /\ subRet' = 0
                             /\ dirs' = dirs1
                             /\ files' = Written(files, config_path, yaml_dump(cfg))
                             /\ UNCHANGED exc
    /\ pc' = "exit"
    /\ UNCHANGED <<inv, locked, dirs0, files0, ctxObj, cliRet, exitStatus, vc, reads,
                   syncEntered, syncvars>>

\* ------------------------------------------------------------------ sync

\* The two imports swapped.
pool_kind_swapped(parallel) == IF parallel THEN "thread" ELSE "process"

\* if parallel: multiprocessing.pool.Pool, else multiprocessing.dummy.Pool
pool_kind(parallel) == IF parallel THEN "process" ELSE "thread"

\* Pool(processes=n); n < 1 raises ValueError.
Pool(kind, n) == [kind |-> kind, processes |-> n]

\* The transfer client's constructor, as the spec describes it: it keeps
\* what it is given.
RSyncTransfer(host, user, keypath, port, partial, compress, pool) ==
    [host |-> host, user |-> user, keypath |-> keypath, port |-> port,
     partial |-> partial, compress |-> compress, pool |-> pool]

\* The orchestration function main: it returns or raises.
MainOutcomes == {"none", "Exception"}

\* The keyword arguments host, user, keypath, port are looked up in ctx.obj
\* first, then the pool is built.
sync_pool ==
    /\ pc = "sync"
    /\ IF ctxObj.t # "map"
       THEN /\ exc' = "TypeError"
            /\ pc' = "exit"
            /\ UNCHANGED pools
       ELSE IF ~({"host", "user", "keypath", "port"} \subseteq DOMAIN ctxObj.m)
       THEN /\ exc' = "KeyError"
            /\ pc' = "exit"
            /\ UNCHANGED pools
       ELSE IF inv.threads < 1
       THEN /\ exc' = "ValueError"
            /\ pc' = "exit"
            /\ UNCHANGED pools
       ELSE /\ pools' = Append(pools, Pool(pool_kind(inv.parallel), inv.threads))
            /\ pc' = "sync_rst"
            /\ UNCHANGED exc
    /\ UNCHANGED <<inv, fsvars, ctxObj, cliRet, subRet, exitStatus, confirm,
                   proceeded, vc, reads, syncEntered, clients, mainCalls>>

sync_rst ==
    /\ pc = "sync_rst"
    /\ clients' = Append(clients,
                         RSyncTransfer(ctxObj.m["host"], ctxObj.m["user"],
                                       ctxObj.m["keypath"], ctxObj.m["port"],
                                       inv.partial, inv.compress, pools[Len(pools)]))
    /\ pc' = "sync_main"
    /\ UNCHANGED <<inv, fsvars, ctxObj, cliRet, subRet, exc, exitStatus, confirm,
                   proceeded, vc, reads, syncEntered, pools, mainCalls>>

sync_main ==
    /\ pc = "sync_main"
    /\ IF "db" \notin DOMAIN ctxObj.m
       THEN /\ exc' = "KeyError"
            /\ UNCHANGED mainCalls
       ELSE /\ mainCalls' = Append(mainCalls,
                                   [rst |-> clients[Len(clients)], db |-> ctxObj.m["db"],
                                    dest |-> inv.dest, src_prefix |-> inv.src_prefix,
                                    order |-> inv.order, limit |-> inv.limit])
            /\ exc' \in MainOutcomes
    /\ pc' = "exit"
    /\ UNCHANGED <<inv, fsvars, ctxObj, cliRet, subRet, exitStatus, confirm,
                   proceeded, vc, reads, syncEntered, pools, clients>>

\* ------------------------------------------------------------- the exit

\* How the process ends: an exception that nothing caught ends it with
\* status 1 (click's Abort as well); otherwise click's standalone main ends
\* with ctx.exit(), status 0, whatever the callbacks returned.
exit_status(e) == IF e # "none" THEN 1 ELSE 0

sys_exit ==
    /\ pc = "exit"
    /\ exitStatus' = exit_status(exc)
    /\ pc' = "done"
    /\ UNCHANGED <<inv, fsvars, ctxObj, cliRet, subRet, exc, confirm, proceeded,
                   vc, reads, syncEntered, syncvars>>

Next ==
    \/ main_entry
    \/ cli
    \/ invoke_subcommand
    \/ init
    \/ sync_pool
    \/ sync_rst
    \/ sync_main
    \/ sys_exit

Spec == Init /\ [][Next]_vars


\* ------------------------------------------------------------ properties

\* The path cli reads, the path init writes, and what is at them when the
\* invocation starts.
ConfigRead == expanduser(inv.config)
ConfigWritten == expanduser(inv.config_path)
Returned == pc \in {"exit", "done"}
FiveKeys == {"host", "port", "user", "keypath", "db"}

C2_UnreadableConfigExit1 ==
    (/\ pc # "start"
     /\ inv.sub # "init"
     /\ OpenReadError(dirs0, files0, locked, ConfigRead) # "none")
    => /\ ctxObj = None
       /\ pc # "cli" => cliRet = 1
       /\ pc = "done" => exitStatus = 1

C2_Witness ==
    /\ pc = "done"
    /\ inv.sub = "sync"
    /\ OpenReadError(dirs0, files0, locked, ConfigRead) = "FileNotFoundError"
    /\ exitStatus = 1
    /\ ctxObj = None

\* C3: a sync invocation whose config file is read and parsed to a mapping
\* that lacks one or more of the five required keys ends with exit status 2.
C3_InvalidConfigExit2 ==
    (/\ pc = "done"
     /\ inv.sub # "init"
     /\ OpenReadError(dirs0, files0, locked, ConfigRead) = "none"
     /\ yaml_load(files0[Resolve(ConfigRead)]).exc = "none"
     /\ yaml_load(files0[Resolve(ConfigRead)]).val.t = "map"
     /\ ~(FiveKeys \subseteq DOMAIN yaml_load(files0[Resolve(ConfigRead)]).val.m))
    => exitStatus = 2

\* C4: the sync callback is entered only with ctx.obj holding a mapping with
\* all five required keys; after a failed load it is never entered.
C4_SyncOnlyWithValidConfig ==
    syncEntered => /\ ctxObj.t = "map"
                   /\ FiveKeys \subseteq DOMAIN ctxObj.m

C6_OverwriteReplaces ==
    (Returned /\ inv.sub = "init")
    => /\ (confirm # "unasked") <=> (~inv.overwrite /\ exists(dirs0, files0, ConfigWritten))
       /\ (inv.overwrite /\ Resolve(ConfigWritten) \in DOMAIN files0)
          => /\ confirm = "unasked"
             /\ exc = "none"
             /\ \/ subRet = 1
                \/ /\ subRet = 0
                   /\ files[Resolve(ConfigWritten)] = yaml_dump(init_cfg(inv))

C6_Witness ==
    /\ pc = "done"
    /\ inv.sub = "init"
    /\ inv.overwrite
    /\ Resolve(ConfigWritten) \in DOMAIN files0
    /\ confirm = "unasked"
    /\ subRet = 0
    /\ files[Resolve(ConfigWritten)] # files0[Resolve(ConfigWritten)]
    /\ files[Resolve(ConfigWritten)] = yaml_dump(init_cfg(inv))

\* C7: after init returned 0, _read_config of the written path succeeds and
\* gives host, port and user as they were given and keypath and db with a
\* leading ~ expanded.
C7_RoundTrip ==
    (Returned /\ inv.sub = "init" /\ proceeded /\ exc = "none" /\ subRet = 0)
    => LET r == _read_config(dirs, files, locked, ConfigWritten)
       IN  /\ r.exc = "none"
           /\ r.cfg.t = "map"
           /\ DOMAIN r.cfg.m = FiveKeys
           /\ r.cfg.m["host"] = Str(inv.host)
           /\ r.cfg.m["port"] = IntV(inv.port)
           /\ r.cfg.m["user"] = Str(inv.user)
           /\ r.cfg.m["keypath"] = Str(expanduser(inv.keypath))
           /\ r.cfg.m["db"] = Str(expanduser(inv.db))
           /\ inv.keypath = <<"~", "/", "k">> => r.cfg.m["keypath"].s = <<"/", "home", "/", "k">>
           /\ inv.keypath = <<"~", "x">> => r.cfg.m["keypath"].s = <<"~", "x">>
           /\ inv.db = <<"~">> => r.cfg.m["db"].s = <<"/", "home">>

\* A host that reads as an integer when unquoted, and a key path to expand.
C7_Witness ==
    /\ pc = "done"
    /\ inv.sub = "init"
    /\ proceeded
    /\ subRet = 0
    /\ exc = "none"
    /\ inv.host = <<"22">>
    /\ inv.keypath = <<"~", "/", "k">>
    /\ _read_config(dirs, files, locked, ConfigWritten).exc = "none"

\* C8: whatever the target path, an init that proceeds to the write ends by
\* returning 0 or 1, never with an exception nobody handles.
C8_InitReturnsZeroOrOne ==
    (Returned /\ inv.sub = "init" /\ proceeded)
    => /\ exc = "none"
       /\ subRet \in {0, 1}

\* C9: for init the dispatcher opens no file, validates nothing, leaves
\* ctx.obj unpopulated and returns 0.
C9_InitSkipsConfig ==
    (inv.sub = "init" /\ pc \notin {"start", "cli"})
    => /\ cliRet = 0
       /\ ctxObj = None
       /\ reads = {}
       /\ ~vc.called
       /\ pc = "dispatch" => exc = "none"

\* init ran to a successful write although the --config file is not there
\* or holds no valid config.
C9_Witness ==
    /\ pc = "done"
    /\ inv.sub = "init"
    /\ _read_config(dirs0, files0, locked, ConfigRead).exc # "none"
    /\ proceeded
    /\ subRet = 0

\* What sync is to build from the config loaded at the start.
LoadedConfig == _read_config(dirs0, files0, locked, ConfigRead).cfg
ExpectedPool ==
    [kind |-> IF inv.parallel THEN "process" ELSE "thread", processes |-> inv.threads]
ExpectedClient ==
    [host |-> LoadedConfig.m["host"], user |-> LoadedConfig.m["user"],
     keypath |-> LoadedConfig.m["keypath"], port |-> LoadedConfig.m["port"],
     partial |-> inv.partial, compress |-> inv.compress, pool |-> ExpectedPool]
ExpectedMainCall ==
    [rst |-> ExpectedClient, db |-> LoadedConfig.m["db"], dest |-> inv.dest,
     src_prefix |-> inv.src_prefix, order |-> inv.order, limit |-> inv.limit]
SyncOrder ==
    /\ Len(pools) <= 1 /\ Len(clients) <= Len(pools) /\ Len(mainCalls) <= Len(clients)
    /\ Len(pools) = 1 => pools[1] = ExpectedPool
    /\ Len(clients) = 1 => clients[1] = ExpectedClient
    /\ Len(mainCalls) = 1 => mainCalls[1] = ExpectedMainCall
    /\ ctxObj = LoadedConfig

\* C10 as stated: every sync invocation with a loaded config builds one
\* pool of the flagged kind and the given size, then one client, then calls
\* main once, and leaves the config as loaded.
C10_EverySyncBuildsAndCalls ==
    (syncEntered /\ ctxObj.t = "map")
    => /\ SyncOrder
       /\ Returned => (Len(pools) = 1 /\ Len(clients) = 1 /\ Len(mainCalls) = 1)

\* C10 amended: the same for every sync invocation whose --threads value is
\* at least 1 (a smaller one makes Pool raise ValueError before anything is
\* built).
C10_SyncBuildsAndCalls ==
    (syncEntered /\ ctxObj.t = "map")
    => /\ SyncOrder
       /\ (Returned /\ inv.threads >= 1)
          => (Len(pools) = 1 /\ Len(clients) = 1 /\ Len(mainCalls) = 1)
       /\ inv.threads < 1 => (pools = <<>> /\ clients = <<>> /\ mainCalls = <<>>)

C10_Witness ==
    /\ pc = "done"
    /\ inv.sub = "sync"
    /\ inv.parallel
    /\ inv.threads = 2
    /\ Len(mainCalls) = 1
    /\ mainCalls[1].rst.pool.kind = "process"
    /\ ctxObj.t = "map"

====
